---- MODULE Spec2Model ----
(***************************************************************************)
(* Symantex: the tag registry (symantex/registry.py) and the evaluation-   *)
(* entry patcher (symantex/_patches.py).                                   *)
(*                                                                         *)
(* State: the three dictionaries of PropertyRegistry, the wrappers put on  *)
(* each rule module's __new__, the method currently installed as           *)
(* SymClass.doit for each entry point class, and the "__orig_doit"         *)
(* attribute the dispatcher leaves on operator classes.  `last` records    *)
(* the most recent call and its outcome, `patch_calls` the order of the    *)
(* successful register_patch calls.                                        *)
(***************************************************************************)
EXTENDS Integers, Sequences, FiniteSets, TLC

\* ------------------------------------------------------------- universe

\* Bounds of the exploration.
MaxPatches == 2
MaxInstalls == 2
MaxArity == 2
MaxLeaves == 4
MaxRetries == 2

\* Property keys (tags) a caller may pass to register().
Tags == {"pull_integral", "distribute_integral"}

\* Rule modules: two PropertyMixin subclasses, and a class that is not one.
Mixins == {"PullIntegralMixin", "DistributeIntegralMixin"}
Modules == Mixins \cup {"PlainClass"}

\* Rule modules for symbol values: PropertyMixin subclasses that derive from
\* Symbol and define their own __new__ (non_comm_add.py, identity_inverse.py),
\* and the key each is registered with.
SymbolTags == {"non_commutes_add", "identity_add", "inverse_add"}
SymbolMixins == {"NonCommAddMixin", "IdentityAddMixin", "InverseAddMixin"}
SymbolMixinFor(key) ==
  IF key = "non_commutes_add" THEN "NonCommAddMixin"
  ELSE IF key = "identity_add" THEN "IdentityAddMixin"
  ELSE "InverseAddMixin"

\* The rule modules of symantex/mixins/derivatives.py and limits.py, and the
\* key each is registered with (the integral modules are in Mixins).
DerivativeTags == {"linear_derivative", "product_rule", "pull_derivative_chain"}
LimitTags == {"pull_limit", "distribute_limit"}
RuleTags == DerivativeTags \cup Tags \cup LimitTags
RuleMixinFor(key) ==
  CASE key = "linear_derivative" -> "LinearDerivativeMixin"
    [] key = "product_rule" -> "ProductRuleMixin"
    [] key = "pull_derivative_chain" -> "PullDerivativeChainMixin"
    [] key = "pull_integral" -> "PullIntegralMixin"
    [] key = "distribute_integral" -> "DistributeIntegralMixin"
    [] key = "pull_limit" -> "PullsLimitMixin"
    [] key = "distribute_limit" -> "DistributeLimitMixin"
RuleMixins == {RuleMixinFor(key) : key \in RuleTags}

\* The symbol modules of symantex/mixins/distributive.py.
DistributiveTags == {"distribute_mul_add_left", "distribute_mul_add_right"}
DistributiveMixins == {"DistributeMulAddLeftMixin", "DistributeMulAddRightMixin"}

\* The module a tag of a symbol value is registered with.
ValueMixinFor(key) ==
  IF key = "distribute_mul_add_left" THEN "DistributeMulAddLeftMixin"
  ELSE IF key = "distribute_mul_add_right" THEN "DistributeMulAddRightMixin"
  ELSE SymbolMixinFor(key)

\* Every module the registry can hold wrappers for.
AllModules == Modules \cup SymbolMixins \cup RuleMixins \cup DistributiveMixins

\* issubclass(mixin_class, PropertyMixin)
IsPropertyMixin(mixin_class) ==
  mixin_class \in Mixins \cup SymbolMixins \cup RuleMixins \cup DistributiveMixins

\* The module each key is registered with in symantex/mixins/integrals.py.
MixinFor(key) ==
  IF key = "pull_integral" THEN "PullIntegralMixin"
  ELSE "DistributeIntegralMixin"

\* The hooks a rule module defines (both integral mixins define _eval_integral
\* and neither defines _eval_derivative).
\* The derivative modules define _eval_derivative, the limit module
\* _eval_limit.
HookNames == {"_eval_integral", "_eval_derivative"}
HooksOf(mixin_class) ==
  IF mixin_class \in Mixins THEN {"_eval_integral"}
  ELSE IF mixin_class \in {RuleMixinFor(key) : key \in DerivativeTags}
  THEN {"_eval_derivative"}
  ELSE IF mixin_class \in {RuleMixinFor(key) : key \in LimitTags}
  THEN {"_eval_limit"}
  ELSE {}

\* Entry point classes; the patched method is always "doit".
SymClasses == {"Integral", "Derivative", "Limit"}
MethodName == "doit"

\* head_attr strings, and the attribute an entry point node really has:
\* Integral(...).function, Derivative(...).expr.  The callable head_attr
\* `lambda self: self.args[0]` ("args[0]") gives a head on every node.
HeadAttrs == {"function", "expr"}
HasAttr(cls, attr) ==
  \/ cls = "Integral" /\ attr = "function"
  \/ cls = "Derivative" /\ attr = "expr"
  \/ attr = "args[0]"

None == "None"

\* A method value: what getattr(SymClass, "doit") can return.  level 0 is the
\* native method of cls, level n >= 1 the n-th dispatcher installed on cls.
Method(cls, level) == [cls |-> cls, level |-> level]
Native(cls) == Method(cls, 0)

\* Python's None in a slot that holds a method value.
NoMethod == Method("None", 0)

VARIABLES
  registry,        \* _registry: key -> [desc, mixin], for the registered keys
  patch_registry,  \* _patch_registry: ordered dict, a sequence of [key, specs]
  originals,       \* _originals: key -> method value or None
  new_wrappers,    \* module -> keys stamped by the wrappers on its __new__
  installed,       \* SymClass -> dispatchers installed on SymClass.doit
  orig_attr,       \* operator class -> its __orig_doit attribute, or None
  patch_calls,     \* history: successful register_patch calls, in call order
  last             \* the most recent call and its outcome

vars == <<registry, patch_registry, originals, new_wrappers, installed,
          orig_attr, patch_calls, last>>

reg_vars == <<registry, patch_registry, originals, new_wrappers, installed,
              orig_attr>>

\* ------------------------------------------------------------- helpers

RECURSIVE Flatten(_)
Flatten(ss) == IF ss = <<>> THEN <<>> ELSE Head(ss) \o Flatten(Tail(ss))

Range(s) == {s[i] : i \in 1..Len(s)}

\* Index of the first element of s satisfying Test, 0 when there is none.
FirstIndex(s, Test(_)) ==
  IF \E i \in 1..Len(s) : Test(s[i])
  THEN CHOOSE i \in 1..Len(s) : Test(s[i]) /\ \A j \in 1..(i-1) : ~Test(s[j])
  ELSE 0

\* An operator class with an integral rule and a derivative rule.
MixedTags == <<"pull_integral", "pull_derivative_chain">>

\* Operator classes the factory can build: one per list of distinct tags.
TagLists ==
  {<<>>} \cup {<<t>> : t \in Tags}
         \cup {<<s, t>> : <<s, t>> \in {p \in Tags \X Tags : p[1] # p[2]}}
         \cup {<<t>> : t \in RuleTags}
         \cup {MixedTags}

\* ------------------------------------------------------------- registry

\* The list of patch specs of `key` (key is registered).
PatchList(key) ==
  LET i == FirstIndex(patch_registry, LAMBDA e : e.key = key)
  IN patch_registry[i].specs

Init ==
  /\ registry = <<>>
  /\ patch_registry = <<>>
  /\ originals = <<>>
  /\ new_wrappers = [m \in AllModules |-> <<>>]
  /\ installed = [c \in SymClasses |-> <<>>]
  /\ orig_attr = [tl \in TagLists |-> NoMethod]
  /\ patch_calls = <<>>
  /\ last = [op |-> "init"]

\* A register() that overwrites an existing key instead of raising.
register_overwrites(key, description, mixin_class) ==
  IF ~IsPropertyMixin(mixin_class)
  THEN /\ last' = [op |-> "register", key |-> key, module |-> mixin_class,
                   err |-> "InvalidModule"]
       /\ UNCHANGED <<reg_vars, patch_calls>>
  ELSE /\ registry' = (key :> [desc |-> description, mixin |-> mixin_class])
                        @@ registry
       /\ patch_registry' =
            IF key \in DOMAIN registry
            THEN [i \in 1..Len(patch_registry) |->
                    IF patch_registry[i].key = key
                    THEN [key |-> key, specs |-> <<>>]
                    ELSE patch_registry[i]]
            ELSE Append(patch_registry, [key |-> key, specs |-> <<>>])
       /\ originals' = (key :> NoMethod) @@ originals
       /\ new_wrappers' = [new_wrappers EXCEPT
                             ![mixin_class] = Append(@, key)]
       /\ last' = [op |-> "register", key |-> key, module |-> mixin_class,
                   err |-> "ok"]
       /\ UNCHANGED <<installed, orig_attr, patch_calls>>

\* A register() without the issubclass test.
register_unchecked(key, description, mixin_class) ==
  IF key \in DOMAIN registry
  THEN /\ last' = [op |-> "register", key |-> key, module |-> mixin_class,
                   err |-> "DuplicateTag"]
       /\ UNCHANGED <<reg_vars, patch_calls>>
  ELSE /\ registry' = (key :> [desc |-> description, mixin |-> mixin_class])
                        @@ registry
       /\ patch_registry' = Append(patch_registry,
                                   [key |-> key, specs |-> <<>>])
       /\ originals' = (key :> NoMethod) @@ originals
       /\ new_wrappers' = [new_wrappers EXCEPT
                             ![mixin_class] = Append(@, key)]
       /\ last' = [op |-> "register", key |-> key, module |-> mixin_class,
                   err |-> "ok"]
       /\ UNCHANGED <<installed, orig_attr, patch_calls>>

\* PropertyRegistry.register: TypeError (InvalidModule) for a class that is
\* not a PropertyMixin subclass, then KeyError (DuplicateTag) for a known
\* key; otherwise the three dictionaries get the key and the module's
\* __new__ is wrapped so that it stamps `key`.
register(key, description, mixin_class) ==
  IF ~IsPropertyMixin(mixin_class)
  THEN /\ last' = [op |-> "register", key |-> key, module |-> mixin_class,
                   err |-> "InvalidModule"]
       /\ UNCHANGED <<reg_vars, patch_calls>>
  ELSE IF key \in DOMAIN registry
  THEN /\ last' = [op |-> "register", key |-> key, module |-> mixin_class,
                   err |-> "DuplicateTag"]
       /\ UNCHANGED <<reg_vars, patch_calls>>
  ELSE /\ registry' = (key :> [desc |-> description, mixin |-> mixin_class])
                        @@ registry
       /\ patch_registry' = Append(patch_registry,
                                   [key |-> key, specs |-> <<>>])
       /\ originals' = (key :> NoMethod) @@ originals
       /\ new_wrappers' = [new_wrappers EXCEPT
                             ![mixin_class] = Append(@, key)]
       /\ last' = [op |-> "register", key |-> key, module |-> mixin_class,
                   err |-> "ok"]
       /\ UNCHANGED <<installed, orig_attr, patch_calls>>

PatchSpec(sympy_class, hook_name, head_attr) ==
  [cls |-> sympy_class, method |-> MethodName, hook |-> hook_name,
   head_attr |-> head_attr]

\* The register_patch calls the rule modules make when they are imported
\* (derivatives.py, integrals.py, limits.py, in this order): one spec per
\* derivative tag on Derivative, one per integral tag on Integral with the
\* callable head_attr, none for the limit tag.
RuleOrder ==
  <<"linear_derivative", "product_rule", "pull_derivative_chain",
    "pull_integral", "distribute_integral", "pull_limit",
    "distribute_limit">>
ImportSpecs(key) ==
  IF key \in DerivativeTags
  THEN <<PatchSpec("Derivative", "_eval_derivative", "expr")>>
  ELSE IF key \in Tags
  THEN <<PatchSpec("Integral", "_eval_integral", "args[0]")>>
  ELSE <<>>
ImportPatchCalls ==
  Flatten([i \in 1..Len(RuleOrder) |->
             [j \in 1..Len(ImportSpecs(RuleOrder[i])) |->
                [key |-> RuleOrder[i], spec |-> ImportSpecs(RuleOrder[i])[j]]]])

\* The register_patch calls made after the modules' own; MaxPatches bounds
\* these.
CallsSinceImport ==
  IF /\ Len(patch_calls) >= Len(ImportPatchCalls)
     /\ SubSeq(patch_calls, 1, Len(ImportPatchCalls)) = ImportPatchCalls
  THEN Len(patch_calls) - Len(ImportPatchCalls)
  ELSE Len(patch_calls)

\* A register_patch() that creates the patch list of an unknown key
\* (setdefault) instead of raising.
register_patch_setdefault(key, sympy_class, hook_name, head_attr) ==
  /\ CallsSinceImport < MaxPatches
  /\ patch_registry' =
       IF \E i \in 1..Len(patch_registry) : patch_registry[i].key = key
       THEN [i \in 1..Len(patch_registry) |->
               IF patch_registry[i].key = key
               THEN [patch_registry[i] EXCEPT
                       !.specs = Append(@, PatchSpec(sympy_class, hook_name,
                                                     head_attr))]
               ELSE patch_registry[i]]
       ELSE Append(patch_registry,
                   [key |-> key,
                    specs |-> <<PatchSpec(sympy_class, hook_name, head_attr)>>])
  /\ patch_calls' = Append(patch_calls,
                           [key |-> key,
                            spec |-> PatchSpec(sympy_class, hook_name,
                                               head_attr)])
  /\ last' = [op |-> "register_patch", key |-> key, cls |-> sympy_class,
              err |-> "ok"]
  /\ UNCHANGED <<registry, originals, new_wrappers, installed, orig_attr>>

\* PropertyRegistry.register_patch: KeyError (UnknownTag) for a key that was
\* never registered, otherwise the spec is appended to the key's list.
\* Nothing else is touched: no original is stored here.
register_patch(key, sympy_class, hook_name, head_attr) ==
  IF key \notin DOMAIN registry
  THEN /\ last' = [op |-> "register_patch", key |-> key, cls |-> sympy_class,
                   err |-> "UnknownTag"]
       /\ UNCHANGED <<reg_vars, patch_calls>>
  ELSE /\ CallsSinceImport < MaxPatches
       /\ patch_registry' =
            [i \in 1..Len(patch_registry) |->
               IF patch_registry[i].key = key
               THEN [patch_registry[i] EXCEPT
                       !.specs = Append(@, PatchSpec(sympy_class, hook_name,
                                                     head_attr))]
               ELSE patch_registry[i]]
       /\ patch_calls' = Append(patch_calls,
                                [key |-> key,
                                 spec |-> PatchSpec(sympy_class, hook_name,
                                                    head_attr)])
       /\ last' = [op |-> "register_patch", key |-> key, cls |-> sympy_class,
                   err |-> "ok"]
       /\ UNCHANGED <<registry, originals, new_wrappers, installed, orig_attr>>

\* register_patch(key, sympy_class, method_name, hook_name, head_attr,
\* arg_extractor): the module-level function takes five parameters, so the
\* call raises TypeError before its body runs.
register_patch_with_extractor(key, sympy_class, hook_name, head_attr, arg_extractor) ==
  /\ last' = [op |-> "register_patch", key |-> key, cls |-> sympy_class,
              arg_extractor |-> arg_extractor, err |-> "TypeError"]
  /\ UNCHANGED <<reg_vars, patch_calls>>

\* ------------------------------------------------------------- lookups

\* A store_original_method() without the "only if not already set" test.
store_original_method_overwrites(origs, key, original) ==
  IF key \notin DOMAIN origs THEN origs ELSE [origs EXCEPT ![key] = original]

\* PropertyRegistry.store_original_method, as a function of the _originals
\* dictionary: the first original stored for a key stays.
store_original_method(origs, key, original) ==
  IF key \notin DOMAIN origs THEN origs   \* KeyError: nothing is stored
  ELSE IF origs[key] = NoMethod THEN [origs EXCEPT ![key] = original]
  ELSE origs

\* A get_original_method() that hands out the empty slot instead of raising.
get_original_method_returns_none(key) ==
  /\ last' = [op |-> "get_original_method", key |-> key,
              err |-> IF key \notin DOMAIN registry THEN "UnknownTag" ELSE "ok",
              ret |-> IF key \notin DOMAIN registry THEN NoMethod
                      ELSE originals[key]]
  /\ UNCHANGED <<reg_vars, patch_calls>>

\* PropertyRegistry.get_original_method: KeyError for an unknown key
\* (UnknownTag), KeyError when the slot is still None (NoOriginal).
get_original_method(key) ==
  /\ last' = [op |-> "get_original_method", key |-> key,
              err |-> IF key \notin DOMAIN registry THEN "UnknownTag"
                      ELSE IF originals[key] = NoMethod THEN "NoOriginal"
                      ELSE "ok",
              ret |-> IF key \notin DOMAIN registry THEN NoMethod
                      ELSE originals[key]]
  /\ UNCHANGED <<reg_vars, patch_calls>>

\* PropertyRegistry.get_mixin_for_key
get_mixin_for_key(key) ==
  /\ last' = [op |-> "get_mixin_for_key", key |-> key,
              err |-> IF key \in DOMAIN registry THEN "ok" ELSE "UnknownTag",
              ret |-> IF key \in DOMAIN registry THEN registry[key].mixin
                      ELSE None]
  /\ UNCHANGED <<reg_vars, patch_calls>>

\* PropertyRegistry.all_patch_specs: the flat list of (key, spec), keys in
\* the insertion order of _patch_registry, specs in the order of each list.
all_patch_specs ==
  Flatten([i \in 1..Len(patch_registry) |->
             [j \in 1..Len(patch_registry[i].specs) |->
                [key |-> patch_registry[i].key,
                 spec |-> patch_registry[i].specs[j]]]])

\* A call of all_patch_specs() by a client.
call_all_patch_specs ==
  /\ last' = [op |-> "all_patch_specs", err |-> "ok", ret |-> all_patch_specs]
  /\ UNCHANGED <<reg_vars, patch_calls>>

LookupOps == {"get_original_method", "get_mixin_for_key", "all_patch_specs"}

\* ------------------------------------------------------------- patcher

\* Classes in the order of their first appearance in a list of (key, spec).
RECURSIVE FirstAppearance(_, _)
FirstAppearance(specs, seen) ==
  IF specs = <<>> THEN <<>>
  ELSE IF Head(specs).spec.cls \in seen
       THEN FirstAppearance(Tail(specs), seen)
       ELSE <<Head(specs).spec.cls>>
              \o FirstAppearance(Tail(specs), seen \cup {Head(specs).spec.cls})

\* The (prop_key, hook_name, head_attr) entries of one entry point class.
RECURSIVE EntriesOf(_, _)
EntriesOf(specs, cls) ==
  IF specs = <<>> THEN <<>>
  ELSE (IF Head(specs).spec.cls = cls
        THEN <<[prop_key |-> Head(specs).key,
                hook |-> Head(specs).spec.hook,
                head_attr |-> Head(specs).spec.head_attr]>>
        ELSE <<>>) \o EntriesOf(Tail(specs), cls)

\* _build_method_patches: _METHOD_PATCHES rebuilt from all_patch_specs(), an
\* ordered dict (SymClass, "doit") -> entries, here a sequence of
\* [cls, specs] in the insertion order of its keys.
build_method_patches ==
  LET classes == FirstAppearance(all_patch_specs, {})
  IN [i \in 1..Len(classes) |->
        [cls |-> classes[i], specs |-> EntriesOf(all_patch_specs, classes[i])]]

\* getattr(SymClass, "doit"): the method installed now.
CurrentMethod(cls) == Method(cls, Len(installed[cls]))

\* The store_original_method calls of one apply_all_patches run, in order:
\* for each entry point, one call per spec with the method installed on that
\* entry point when the run reaches it.
StoreCalls(method_patches) ==
  Flatten([i \in 1..Len(method_patches) |->
             [j \in 1..Len(method_patches[i].specs) |->
                [key |-> method_patches[i].specs[j].prop_key,
                 original |-> CurrentMethod(method_patches[i].cls)]]])

RECURSIVE StoreAll(_, _)
StoreAll(origs, calls) ==
  IF calls = <<>> THEN origs
  ELSE StoreAll(store_original_method(origs, Head(calls).key,
                                      Head(calls).original),
                Tail(calls))

\* apply_all_patches: rebuild the mapping, store the current method as the
\* original of every key with a spec, and put one more wrapper, closed over
\* the current method and the current specs, on every entry point.
apply_all_patches ==
  /\ \A c \in SymClasses : Len(installed[c]) < MaxInstalls
  /\ LET mp == build_method_patches
     IN /\ originals' = StoreAll(originals, StoreCalls(mp))
        /\ installed' =
             [c \in SymClasses |->
                IF \E i \in 1..Len(mp) : mp[i].cls = c
                THEN Append(installed[c],
                            mp[FirstIndex(mp, LAMBDA e : e.cls = c)].specs)
                ELSE installed[c]]
  /\ last' = [op |-> "apply_all_patches", err |-> "ok"]
  /\ UNCHANGED <<registry, patch_registry, new_wrappers, orig_attr,
                 patch_calls>>

\* ------------------------------------------------------------- heads

\* The head of a node under evaluation: an application of an operator class
\* built by the factory from a list of tags (custom = TRUE: the class has
\* property_keys), a value stamped by the wrappers that register() puts on
\* the __new__ of rule modules (inst = TRUE: the instance has _property_keys
\* and its class has no property_keys), or a plain engine expression with
\* neither.
OpHead(tags) == [custom |-> TRUE, inst |-> FALSE, tags |-> tags]
PlainHead == [custom |-> FALSE, inst |-> FALSE, tags |-> <<>>]
StampedHead(tags) == [custom |-> FALSE, inst |-> TRUE, tags |-> tags]

\* The heads that can be built now: every tag of the class is registered.
Heads ==
  {OpHead(tl) : tl \in {t \in TagLists : Range(t) \subseteq DOMAIN registry}}
    \cup {PlainHead}

\* Values of the rule modules of registered tags, stamped at construction.
StampedHeads ==
  {StampedHead(tl) : tl \in {t \in TagLists : t # <<>> /\
                                              Range(t) \subseteq DOMAIN registry}}

\* Bases of the operator class, in the order of its tags.
OperatorMRO(head) ==
  [i \in 1..Len(head.tags) |-> registry[head.tags[i]].mixin]

\* hasattr(head.func, "property_keys")
HasPropertyKeys(head) == head.custom

\* Step 3 of the dispatcher: the keys collected from the head.  Operator
\* classes expose their tags at class level (head.func.property_keys),
\* stamped values at instance level (head._property_keys).
PropKeys(head) == IF head.custom \/ head.inst THEN Range(head.tags) ELSE {}

\* getattr(head.func, hook_name, None): the attribute is found along the
\* bases of the class, in order; the result is the module that defines it.
ResolveHook(head, hook_name) ==
  LET mro == OperatorMRO(head)
      i == FirstIndex(mro, LAMBDA m : hook_name \in HooksOf(m))
  IN IF i = 0 THEN None ELSE mro[i]

\* ------------------------------------------------------------- dispatcher

\* What one call of SymClass.doit(node) comes to.  kind: "hook" (a rule hook
\* was invoked), "unevaluated" (return self), "native" (the native method was
\* reached), "AttributeError" or "MissingHook" (an exception left the call).
\* tag/owner: the matching prop_key and the module whose hook ran.  skipped:
\* the matching prop_keys passed over because the hook was not found.
\* stash: the value set as head.func.__orig_doit, or None.  layers: the
\* number of dispatchers the call went through; level: the dispatcher that
\* produced the result (0: the native method).
Outcome(kind, tag, owner, skipped, stash, level) ==
  [kind |-> kind, tag |-> tag, owner |-> owner, skipped |-> skipped,
   stash |-> stash, layers |-> 1, level |-> level]

\* Entering one more dispatcher on the way to outcome r.
Through(r, skipped) ==
  [r EXCEPT !.layers = @ + 1, !.skipped = skipped \o @]

\* get_original_method(prop_key) inside try/except KeyError: the stored
\* original, or NoMethod when the call raises and nothing is attached.
OriginalOrNone(prop_key) ==
  IF prop_key \in DOMAIN registry THEN originals[prop_key] ELSE NoMethod

RECURSIVE call_method(_, _, _)

\* A spec loop that raises MissingHook when the matching spec's hook is not
\* found on the head's operator.
RECURSIVE walk_specs_raises(_, _, _, _, _)
walk_specs_raises(cls, level, head, i, skipped) ==
  LET specs == installed[cls][level]
  IN IF i > Len(specs)
     THEN IF HasPropertyKeys(head)
          THEN Outcome("unevaluated", None, None, skipped, NoMethod, level)
          ELSE Through(call_method(cls, level - 1, head), skipped)
     ELSE IF specs[i].prop_key \notin PropKeys(head)
     THEN walk_specs_raises(cls, level, head, i + 1, skipped)
     ELSE IF ~HasAttr(cls, specs[i].head_attr)
     THEN Outcome("AttributeError", specs[i].prop_key, None, skipped, NoMethod,
                  level)
     ELSE IF ResolveHook(head, specs[i].hook) = None
     THEN Outcome("MissingHook", specs[i].prop_key, None,
                  Append(skipped, specs[i].prop_key), NoMethod, level)
     ELSE Outcome("hook", specs[i].prop_key,
                  ResolveHook(head, specs[i].hook), skipped,
                  OriginalOrNone(specs[i].prop_key), level)

\* Steps 4 and 5 of patched(): the specs of this dispatcher from the i-th on,
\* in list order.  A spec whose prop_key is on the head is taken: its own
\* head_attr is read again (a string the node lacks gives None, and
\* None.func raises AttributeError), the hook is looked up by name on the
\* head's class and the loop continues when it is not found; otherwise the
\* original is attached and the hook invoked.  After the loop: return self
\* for a class with property_keys, else the wrapper's original_method.
RECURSIVE walk_specs(_, _, _, _, _)
walk_specs(cls, level, head, i, skipped) ==
  LET specs == installed[cls][level]
  IN IF i > Len(specs)
     THEN IF HasPropertyKeys(head)
          THEN Outcome("unevaluated", None, None, skipped, NoMethod, level)
          ELSE Through(call_method(cls, level - 1, head), skipped)
     ELSE IF specs[i].prop_key \notin PropKeys(head)
     THEN walk_specs(cls, level, head, i + 1, skipped)
     ELSE IF ~HasAttr(cls, specs[i].head_attr)
     THEN Outcome("AttributeError", specs[i].prop_key, None, skipped, NoMethod,
                  level)
     ELSE IF ResolveHook(head, specs[i].hook) = None
     THEN walk_specs(cls, level, head, i + 1,
                     Append(skipped, specs[i].prop_key))
     ELSE Outcome("hook", specs[i].prop_key,
                  ResolveHook(head, specs[i].hook), skipped,
                  OriginalOrNone(specs[i].prop_key), level)

\* Steps 1 and 2 of patched(): the head is found when some spec's head_attr
\* is an attribute of the node; with no head the wrapper's original_method
\* (the method installed before this dispatcher) is called.
patched(cls, level, head) ==
  IF \A i \in 1..Len(installed[cls][level]) :
       ~HasAttr(cls, installed[cls][level][i].head_attr)
  THEN Through(call_method(cls, level - 1, head), <<>>)
  ELSE walk_specs(cls, level, head, 1, <<>>)

\* Calling the method value Method(cls, level) on a node with this head.
call_method(cls, level, head) ==
  IF level = 0
  THEN [kind |-> "native", tag |-> None, owner |-> None, skipped |-> <<>>,
        stash |-> NoMethod, layers |-> 0, level |-> 0]
  ELSE patched(cls, level, head)

\* The outcome of SymClass(head, ...).doit() in the current state.
DoitOutcome(cls, head) == call_method(cls, Len(installed[cls]), head)

\* SymClass(head, ...).doit(): the installed method runs; a hook invocation
\* leaves the stored original on the head's operator class.
doit(cls, head) ==
  /\ head \in Heads
  /\ LET r == DoitOutcome(cls, head)
     IN orig_attr' = IF r.kind = "hook" /\ r.stash # NoMethod
                     THEN [orig_attr EXCEPT ![head.tags] = r.stash]
                     ELSE orig_attr
  /\ last' = [op |-> "doit"]
  /\ UNCHANGED <<registry, patch_registry, originals, new_wrappers,
                 installed, patch_calls>>

\* ------------------------------------------------------------- construction

\* The list a rule module's own __new__ assigns to obj._property_keys after
\* super().__new__ has returned (NonCommAddMixin), or None: the other symbol
\* modules return what super().__new__ gave them.
OwnKeys(mixin_class) ==
  IF mixin_class = "NonCommAddMixin" THEN <<"non_commutes_add">> ELSE None

\* cls.__new__(cls, name) for a symbol type whose bases are the rule modules
\* `bases` followed by Symbol, from the i-th base on.  Each module's __new__
\* is the stack of wrapped_new put on it by register(), around its own
\* __new__: the own __new__ calls super().__new__ (the next base; after the
\* last one Symbol.__new__, the real construction, whose value has no
\* _property_keys), and every wrapper appends its key to the list it finds.
RECURSIVE construct_from(_, _)
construct_from(bases, i) ==
  IF i > Len(bases)
  THEN [built |-> TRUE, keys |-> <<>>]
  ELSE LET inner == construct_from(bases, i + 1)
           own == IF OwnKeys(bases[i]) = None THEN inner
                  ELSE [inner EXCEPT !.keys = OwnKeys(bases[i])]
       IN [own EXCEPT !.keys = @ \o new_wrappers[bases[i]]]

\* Symbol types the factory can compose: one to three distinct rule modules.
Compositions ==
  {<<m>> : m \in SymbolMixins}
    \cup {b \in SymbolMixins \X SymbolMixins : b[1] # b[2]}
    \cup {b \in SymbolMixins \X SymbolMixins \X SymbolMixins :
             b[1] # b[2] /\ b[1] # b[3] /\ b[2] # b[3]}

\* Constructing a value of the type composed of `bases`.
construct(bases) ==
  /\ last' = [op |-> "construct", bases |-> bases,
              obj |-> construct_from(bases, 1)]
  /\ UNCHANGED <<reg_vars, patch_calls>>

\* ------------------------------------------------------------- rule hooks

\* Expressions.  k: "leaf" (an engine expression, named by f[1]), "app" (an
\* operator applied to arguments; f is the tag list its class was composed
\* from), "Derivative", "Integral", "Limit" (an entry point node: a[1] is the
\* expression, v the variable, or the variable, point and direction), "Add",
\* or "error" (an exception, named by f[1]).
Leaf(name) == [k |-> "leaf", f |-> <<name>>, a |-> <<>>, v |-> <<>>]
Apply(func, args) == [k |-> "app", f |-> func, a |-> args, v |-> <<>>]
Derivative(expr, sym) ==
  [k |-> "Derivative", f |-> <<>>, a |-> <<expr>>, v |-> <<sym>>]
Integral(expr, sym) ==
  [k |-> "Integral", f |-> <<>>, a |-> <<expr>>, v |-> <<sym>>]
Limit(expr, var, point, dir) ==
  [k |-> "Limit", f |-> <<>>, a |-> <<expr>>, v |-> <<var, point, dir>>]
Raised(exception) ==
  [k |-> "error", f |-> <<exception>>, a |-> <<>>, v |-> <<>>]

\* Add(*terms, evaluate=True) and term1 + term2: one term is returned as it
\* is; the terms are kept in the order they were produced (the engine's sum
\* is commutative, so sums are compared term by term in that order).
Add(terms) ==
  IF Len(terms) = 1 THEN terms[1]
  ELSE [k |-> "Add", f |-> <<>>, a |-> terms, v |-> <<>>]

\* The engine on its own expressions: arg.diff(sym), the native Integral.doit
\* and the native Limit.doit, as tables over the leaves.
diff(arg, sym) ==
  CASE arg = Leaf("x**2") /\ sym = "x" -> Leaf("2*x")
    [] arg = Leaf("1/x") /\ sym = "x" -> Leaf("-1/x**2")
    [] arg = Leaf("a") /\ sym = "a" -> Leaf("1")
    [] OTHER -> Leaf("0")
integrate(arg, sym) ==
  CASE arg = Leaf("x**2") /\ sym = "x" -> Leaf("x**3/3")
    [] arg = Leaf("x**2") /\ sym = "a" -> Leaf("a*x**2")
    [] arg = Leaf("1/x") /\ sym = "x" -> Leaf("log(x)")
    [] arg = Leaf("1/x") /\ sym = "a" -> Leaf("a/x")
    [] arg = Leaf("a") /\ sym = "x" -> Leaf("a*x")
    [] arg = Leaf("a") /\ sym = "a" -> Leaf("a**2/2")
    [] OTHER -> Integral(arg, sym)
limit(arg, var, point, dir) ==
  CASE arg = Leaf("x**2") /\ var = "x" /\ point = "0" -> Leaf("0")
    [] arg = Leaf("1/x") /\ var = "x" /\ point = "0" ->
         IF dir = "+" THEN Leaf("oo") ELSE Leaf("-oo")
    [] arg = Leaf("a") /\ var = "a" /\ point = "0" -> Leaf("0")
    [] OTHER -> arg

\* The native doit of an entry point: the engine's tables on its own
\* expressions; an application of an operator it knows nothing about is left
\* as it is.
NativeDoit(node) ==
  IF node.a[1].k # "leaf" THEN node
  ELSE CASE node.k = "Derivative" -> diff(node.a[1], node.v[1])
         [] node.k = "Integral" -> integrate(node.a[1], node.v[1])
         [] node.k = "Limit" ->
              limit(node.a[1], node.v[1], node.v[2], node.v[3])

\* The head the dispatcher sees for an expression: the operator class of an
\* application, a plain engine expression otherwise.
HeadOf(expr) == IF expr.k = "app" THEN OpHead(expr.f) ELSE PlainHead

\* hook_args, built from the entry point class of the wrapper.
HookArgs(node) ==
  CASE node.k = "Derivative" -> <<node.v[1]>>
    [] node.k = "Limit" -> <<node.v[1], node.v[2], node.v[3]>>
    [] node.k = "Integral" -> <<node.v[1]>>
    [] OTHER -> <<>>

RECURSIVE EvalNode(_)

\* A linear_derivative hook that only refuses an empty argument list.
LinearDerivative_unchecked(self, sym) ==
  IF self.a = <<>> THEN Derivative(self, sym)
  ELSE Apply(self.f, <<diff(self.a[1], sym)>>)

\* A linear_derivative hook that rebuilds the operator over the argument
\* itself.
LinearDerivative_identity(self, sym) ==
  IF Len(self.a) # 1 THEN Derivative(self, sym)
  ELSE Apply(self.f, <<self.a[1]>>)

\* LinearDerivativeMixin._eval_derivative: the unevaluated Derivative unless
\* there is exactly one argument, else the operator over its derivative.
LinearDerivative_eval_derivative(self, sym) ==
  IF Len(self.a) # 1 THEN Derivative(self, sym)
  ELSE Apply(self.f, <<diff(self.a[1], sym)>>)

\* ProductRuleMixin._eval_derivative
ProductRule_eval_derivative(self, sym) ==
  IF Len(self.a) # 2 THEN Derivative(self, sym)
  ELSE Add(<<Apply(self.f, <<diff(self.a[1], sym), self.a[2]>>),
             Apply(self.f, <<self.a[1], diff(self.a[2], sym)>>)>>)

\* PullDerivativeChainMixin._eval_derivative
PullDerivativeChain_eval_derivative(self, sym) ==
  IF self.a = <<>> THEN Derivative(self, sym)
  ELSE Add([i \in 1..Len(self.a) |->
              Apply(self.f, [self.a EXCEPT ![i] = diff(self.a[i], sym)])])

\* A pull_integral hook that rebuilds the operator over its arguments.
PullIntegral_keeps_args(self, sym) ==
  IF self.a = <<>> THEN Integral(self, sym)
  ELSE Apply(self.f, self.a)

\* PullIntegralMixin._eval_integral: every argument is integrated through
\* Integral(arg, sym).doit(), the installed method.
PullIntegral_eval_integral(self, sym) ==
  IF self.a = <<>> THEN Integral(self, sym)
  ELSE Apply(self.f, [i \in 1..Len(self.a) |->
                         EvalNode(Integral(self.a[i], sym))])

\* DistributeIntegralMixin._eval_integral
DistributeIntegral_eval_integral(self, sym) ==
  IF self.a = <<>> THEN Integral(self, sym)
  ELSE Apply(self.f, [i \in 1..Len(self.a) |->
                         EvalNode(Integral(self.a[i], sym))])

\* A pull_limit hook that always takes the limit from the right.
PullsLimit_ignores_dir(self, var, point, dir) ==
  Apply(self.f, [i \in 1..Len(self.a) |->
                   EvalNode(Limit(self.a[i], var, point, "+"))])

\* PullsLimitMixin._eval_limit: every argument is replaced by
\* Limit(arg, var, point, dir).doit(), the installed method.
PullsLimit_eval_limit(self, var, point, dir) ==
  Apply(self.f, [i \in 1..Len(self.a) |->
                   EvalNode(Limit(self.a[i], var, point, dir))])

\* DistributeLimitMixin._eval_limit: the same body as the pull_limit hook,
\* whatever the number of arguments.
DistributeLimit_eval_limit(self, var, point, dir) ==
  Apply(self.f, [i \in 1..Len(self.a) |->
                   EvalNode(Limit(self.a[i], var, point, dir))])

\* hook(head2, *hook_args): the hook of the module `owner` bound to the head;
\* a hook called with the wrong number of arguments raises TypeError.
RunHook(owner, self, hook_args) ==
  CASE owner = "LinearDerivativeMixin" /\ Len(hook_args) = 1 ->
         LinearDerivative_eval_derivative(self, hook_args[1])
    [] owner = "ProductRuleMixin" /\ Len(hook_args) = 1 ->
         ProductRule_eval_derivative(self, hook_args[1])
    [] owner = "PullDerivativeChainMixin" /\ Len(hook_args) = 1 ->
         PullDerivativeChain_eval_derivative(self, hook_args[1])
    [] owner = "PullIntegralMixin" /\ Len(hook_args) = 1 ->
         PullIntegral_eval_integral(self, hook_args[1])
    [] owner = "DistributeIntegralMixin" /\ Len(hook_args) = 1 ->
         DistributeIntegral_eval_integral(self, hook_args[1])
    [] owner = "PullsLimitMixin" /\ Len(hook_args) = 3 ->
         PullsLimit_eval_limit(self, hook_args[1], hook_args[2], hook_args[3])
    [] owner = "DistributeLimitMixin" /\ Len(hook_args) = 3 ->
         DistributeLimit_eval_limit(self, hook_args[1], hook_args[2],
                                    hook_args[3])
    [] OTHER -> Raised("TypeError")

\* The value of node.doit() in the current state: what the installed method
\* of the node's class returns.
EvalNode(node) ==
  LET self == node.a[1]
      r == DoitOutcome(node.k, HeadOf(self))
  IN CASE r.kind = "hook" -> RunHook(r.owner, self, HookArgs(node))
       [] r.kind = "unevaluated" -> node
       [] r.kind = "native" -> NativeDoit(node)
       [] OTHER -> Raised(r.kind)

\* node.doit() on an entry point node: the installed method runs as in doit,
\* and the value it returns is kept.
evaluate(node) ==
  /\ HeadOf(node.a[1]) \in Heads
  /\ LET r == DoitOutcome(node.k, HeadOf(node.a[1]))
     IN /\ orig_attr' = IF r.kind = "hook" /\ r.stash # NoMethod
                        THEN [orig_attr EXCEPT ![node.a[1].f] = r.stash]
                        ELSE orig_attr
        /\ last' = [op |-> "evaluate", node |-> node,
                    result |-> EvalNode(node),
                    hook_args |-> IF r.kind = "hook" THEN HookArgs(node)
                                  ELSE <<>>]
  /\ UNCHANGED <<registry, patch_registry, originals, new_wrappers,
                 installed, patch_calls>>

\* ------------------------------------------------------------- operators

\* What eval returns when it does not apply (None), as an expression.
NotEvaluated == [k |-> "None", f |-> <<>>, a |-> <<>>, v |-> <<>>]

\* default_sort_key on the leaves: symbols are ordered by name.
default_sort_key(expr) ==
  CASE expr.k = "leaf" /\ expr.f = <<"a">> -> 1
    [] expr.k = "leaf" /\ expr.f = <<"b">> -> 2
    [] expr.k = "leaf" /\ expr.f = <<"c">> -> 3
    [] OTHER -> 4

\* sorted(args, key=default_sort_key): a stable insertion sort.
RECURSIVE Insert(_, _)
Insert(sorted, x) ==
  IF sorted = <<>> THEN <<x>>
  ELSE IF default_sort_key(x) < default_sort_key(Head(sorted))
  THEN <<x>> \o sorted
  ELSE <<Head(sorted)>> \o Insert(Tail(sorted), x)
RECURSIVE Sorted(_, _)
Sorted(args, n) ==
  IF n = 0 THEN <<>> ELSE Insert(Sorted(args, n - 1), args[n])

\* A sort_args that leaves the arguments as they are.
sort_args_unsorted(args) == args

\* PropertyMixin.sort_args
sort_args(args) == Sorted(args, Len(args))

\* CommutesFunctionMixin.__new__: an application of the undefined function
\* named after the class (k = "undef") to the sorted arguments.
CommutesFunctionMixin_new(cls, args) ==
  [k |-> "undef", f |-> cls, a |-> sort_args(args), v |-> <<>>]

RECURSIVE new(_, _)

\* An eval that never re-associates.
AssociativeMixin_eval_none(cls, args) == NotEvaluated

\* An eval that re-associates one level without constructing through cls.
AssociativeMixin_eval_once(cls, args) ==
  IF Len(args) = 2 /\ args[1].k = "app" /\ args[1].f = cls
  THEN Apply(cls, <<args[1].a[1], Apply(cls, <<args[1].a[2], args[2]>>)>>)
  ELSE NotEvaluated

\* AssociativeMixin.eval: for two arguments of which the first is an
\* instance of cls, cls(inner_left, cls(inner_right, args[1])); unpacking
\* args[0].args into two names raises ValueError for another length.
AssociativeMixin_eval(cls, args) ==
  IF Len(args) = 2 /\ args[1].k = "app" /\ args[1].f = cls
  THEN IF Len(args[1].a) # 2 THEN Raised("ValueError")
       ELSE new(cls, <<args[1].a[1], new(cls, <<args[1].a[2], args[2]>>)>>)
  ELSE NotEvaluated

\* cls(*args) for an operator class composed from the tags cls: the
\* constructor of the commutes module when the class has it; otherwise the
\* engine's function constructor, which returns what cls.eval(*args) gives
\* unless that is None, and then the node over the arguments.  eval is the
\* associative module's when the class has it, else the engine's (None).
new(cls, args) ==
  IF "commutes" \in Range(cls) THEN CommutesFunctionMixin_new(cls, args)
  ELSE LET evaluated == IF "associative" \in Range(cls)
                        THEN AssociativeMixin_eval(cls, args)
                        ELSE NotEvaluated
       IN IF evaluated # NotEvaluated THEN evaluated ELSE Apply(cls, args)

\* Evaluating the Python expression written as the term t: the arguments
\* are constructed first, then the operator is called on them.
RECURSIVE Build(_)
Build(t) ==
  IF t.k = "leaf" THEN t
  ELSE new(t.f, [i \in 1..Len(t.a) |-> Build(t.a[i])])

\* The symbols the operators are applied to.
LeafNames == {"a", "b", "c"}

\* The terms with n leaves written with one binary operator cls.
RECURSIVE TermsOf(_, _)
TermsOf(cls, n) ==
  IF n = 1 THEN {Leaf(name) : name \in LeafNames}
  ELSE UNION {{Apply(cls, <<l, r>>) :
                 l \in TermsOf(cls, i), r \in TermsOf(cls, n - i)} :
              i \in 1..(n - 1)}

\* The expressions that are constructed: nested applications of an
\* associative operator and of an operator with no tag, and one application
\* of a commutes operator to a list of symbols.
OperatorInputs ==
  UNION {TermsOf(cls, n) : cls \in {<<"associative">>, <<>>},
                           n \in 2..MaxLeaves}
    \cup {Apply(<<"commutes">>, args) :
            args \in UNION {[1..n -> {Leaf(name) : name \in LeafNames}] :
                              n \in 1..MaxLeaves}}

\* One expression to construct is chosen at the start.
InitOperators ==
  /\ registry = <<>>
  /\ patch_registry = <<>>
  /\ originals = <<>>
  /\ new_wrappers = [m \in AllModules |-> <<>>]
  /\ installed = [c \in SymClasses |-> <<>>]
  /\ orig_attr = [tl \in TagLists |-> NoMethod]
  /\ patch_calls = <<>>
  /\ last \in {[op |-> "input", term |-> t] : t \in OperatorInputs}

\* The chosen expression is constructed.
build ==
  /\ last.op = "input"
  /\ last' = [op |-> "build", term |-> last.term, obj |-> Build(last.term)]
  /\ UNCHANGED <<reg_vars, patch_calls>>

\* ------------------------------------------------------------- behaviours

\* The state after the rule modules have been imported: every rule tag is
\* registered with its module, whose __new__ carries one wrapper, and the
\* patch lists hold the modules' specs; nothing is installed yet.
InitRules ==
  /\ registry = [key \in RuleTags |->
                   [desc |-> IF key = "pull_integral" THEN "d1" ELSE "d2",
                    mixin |-> RuleMixinFor(key)]]
  /\ patch_registry = [i \in 1..Len(RuleOrder) |->
                         [key |-> RuleOrder[i],
                          specs |-> ImportSpecs(RuleOrder[i])]]
  /\ originals = [key \in RuleTags |-> NoMethod]
  /\ new_wrappers =
       [m \in AllModules |->
          IF m \in RuleMixins
          THEN <<CHOOSE key \in RuleTags : RuleMixinFor(key) = m>>
          ELSE <<>>]
  /\ installed = [c \in SymClasses |-> <<>>]
  /\ orig_attr = [tl \in TagLists |-> NoMethod]
  /\ patch_calls = ImportPatchCalls
  /\ last = [op |-> "init"]

\* Arguments of an operator application: up to MaxArity of the leaves.
ArgLists(leaves) ==
  UNION {[1..n -> {Leaf(name) : name \in leaves}] : n \in 0..MaxArity}

\* Entry point nodes over applications of the operator classes `funcs` and
\* over the leaves themselves.
Exprs(funcs, leaves) ==
  {Apply(func, args) : func \in funcs, args \in ArgLists(leaves)}
    \cup {Leaf(name) : name \in leaves}
Symbols == {"x", "a"}
DerivativeNodes ==
  {Derivative(expr, sym) :
     expr \in Exprs({<<t>> : t \in DerivativeTags} \cup {<<>>},
                    {"x**2", "a"}),
     sym \in Symbols}
IntegralNodes ==
  {Integral(expr, sym) :
     expr \in Exprs({<<t>> : t \in Tags} \cup {<<>>}, {"x**2", "a"}),
     sym \in Symbols}
LimitNodes ==
  {Limit(expr, var, "0", dir) :
     expr \in Exprs({<<"pull_limit">>, <<"pull_integral">>, <<>>},
                    {"1/x", "a"}),
     var \in {"x"}, dir \in {"+", "-"}}

\* The description each module is registered with.
DescOf(mixin_class) ==
  IF mixin_class = "PullIntegralMixin" THEN "d1" ELSE "d2"

\* The patch specs the dispatch exploration registers: the real Integral
\* spec, a spec naming a hook no module defines, and a spec on the second
\* entry point.
PatchInputs ==
  { <<"Integral", "_eval_integral", "function">>,
    <<"Integral", "_eval_derivative", "function">>,
    <<"Derivative", "_eval_integral", "expr">> }

\* Registration with the real modules, patching, installing, and evaluating
\* nodes of the patched entry points.  The calls that fail and change
\* nothing are explored by SpecRegistry.
Next ==
  \/ \E key \in Tags \ DOMAIN registry :
       register(key, DescOf(MixinFor(key)), MixinFor(key))
  \/ \E key \in DOMAIN registry, p \in PatchInputs :
       register_patch(key, p[1], p[2], p[3])
  \/ apply_all_patches
  \/ \E cls \in {c \in SymClasses : installed[c] # <<>>}, head \in Heads :
       doit(cls, head)

Spec == Init /\ [][Next]_vars

\* The registry on its own: every module and description, the lookups.
NextRegistry ==
  \/ \E key \in Tags, m \in Modules : register(key, DescOf(m), m)
  \/ \E key \in Tags, c \in {"Integral", "Derivative"} :
       register_patch(key, c, "_eval_integral",
                      IF c = "Integral" THEN "function" ELSE "expr")
  \/ apply_all_patches
  \/ \E key \in Tags : get_original_method(key)
  \/ \E key \in Tags : get_mixin_for_key(key)
  \/ call_all_patch_specs

SpecRegistry == Init /\ [][NextRegistry]_vars

\* Registration of the symbol modules and construction of composed symbols.
NextConstruct ==
  \/ \E key \in SymbolTags :
       register(key, DescOf(SymbolMixinFor(key)), SymbolMixinFor(key))
  \/ \E bases \in Compositions : construct(bases)

SpecConstruct == Init /\ [][NextConstruct]_vars

\* The derivative rules: installing, and evaluating Derivative nodes.
NextDerivative ==
  \/ apply_all_patches
  \/ \E node \in DerivativeNodes :
       installed["Derivative"] # <<>> /\ evaluate(node)

SpecDerivative == InitRules /\ [][NextDerivative]_vars

\* The integral rules: installing, and evaluating Integral nodes.
NextIntegral ==
  \/ apply_all_patches
  \/ \E node \in IntegralNodes :
       installed["Integral"] # <<>> /\ evaluate(node)

SpecIntegral == InitRules /\ [][NextIntegral]_vars

\* The limit rule: a patch of Limit for pull_limit registered by the caller,
\* with and without an argument extractor, installing, and evaluating Limit
\* nodes.
NextLimit ==
  \/ register_patch("pull_limit", "Limit", "_eval_limit", "args[0]")
  \/ register_patch_with_extractor("pull_limit", "Limit", "_eval_limit",
                                   "args[0]", "args[1:4]")
  \/ apply_all_patches
  \/ \E node \in LimitNodes :
       installed["Limit"] # <<>> /\ evaluate(node)

SpecLimit == InitRules /\ [][NextLimit]_vars

\* The distribute_limit rule: a patch of Limit registered by the caller,
\* installing, and evaluating Limit nodes.
DistributeLimitNodes ==
  {Limit(expr, var, "0", dir) :
     expr \in Exprs({<<"distribute_limit">>}, {"1/x", "a"}),
     var \in {"x"}, dir \in {"+", "-"}}
NextDistributeLimit ==
  \/ register_patch("distribute_limit", "Limit", "_eval_limit", "args[0]")
  \/ apply_all_patches
  \/ \E node \in DistributeLimitNodes :
       installed["Limit"] # <<>> /\ evaluate(node)

SpecDistributeLimit == InitRules /\ [][NextDistributeLimit]_vars

\* Construction of operator applications.
NextOperators == build

SpecOperators == InitOperators /\ [][NextOperators]_vars

\* ------------------------------------------------------------- registry claims

HasPatchList(key) == \E i \in 1..Len(patch_registry) : patch_registry[i].key = key

\* C1, as stated: register() on a key that is already registered fails with
\* DuplicateTag (KeyError), whatever the module, and leaves the registry
\* unchanged.
C1_DuplicateTagWhateverModule ==
  [][(last'.op = "register" /\ last'.key \in DOMAIN registry)
       => (last'.err = "DuplicateTag" /\ UNCHANGED reg_vars)]_vars

\* C1, amended: register() on a key that is already registered fails and
\* leaves the registry unchanged (the key keeps its first description and
\* module, its patch specs and its stored original); the error is
\* DuplicateTag (KeyError) for a PropertyMixin subclass and InvalidModule
\* (TypeError) for any other class, because the module is tested first.
C1_DuplicateRegisterFails ==
  [][(last'.op = "register" /\ last'.key \in DOMAIN registry)
       => /\ last'.err = IF IsPropertyMixin(last'.module)
                         THEN "DuplicateTag" ELSE "InvalidModule"
          /\ UNCHANGED reg_vars]_vars

\* A second register() of a patched, installed key, with another module, has
\* just failed with DuplicateTag.
C1_Witness ==
  /\ last.op = "register"
  /\ last.err = "DuplicateTag"
  /\ registry[last.key].mixin # last.module
  /\ PatchList(last.key) # <<>>
  /\ originals[last.key] # NoMethod

\* C2: register_patch() for a key that was never registered fails with
\* UnknownTag (KeyError) and records no patch spec for any key: the list
\* all_patch_specs() hands to a later apply_all_patches is the same as
\* before the call.
C2_UnknownTagPatchFails ==
  [][(last'.op = "register_patch" /\ last'.key \notin DOMAIN registry)
       => /\ last'.err = "UnknownTag"
          /\ all_patch_specs' = all_patch_specs
          /\ UNCHANGED reg_vars]_vars

\* register_patch() has just failed for an unknown key while another key has
\* patch specs.
C2_Witness ==
  /\ last.op = "register_patch"
  /\ last.err = "UnknownTag"
  /\ last.key \notin DOMAIN registry
  /\ all_patch_specs # <<>>

\* C3, as stated: after register() with a class that is not a PropertyMixin
\* subclass has failed with InvalidModule (TypeError), the key is not
\* registered, has no patch list and no original slot, and the module's
\* __new__ has not been wrapped.
C3_KeyUnregisteredAfterInvalidModule ==
  (last.op = "register" /\ ~IsPropertyMixin(last.module))
    => /\ last.err = "InvalidModule"
       /\ last.key \notin DOMAIN registry
       /\ ~HasPatchList(last.key)
       /\ last.key \notin DOMAIN originals
       /\ new_wrappers[last.module] = <<>>

\* C3, amended: register() with a class that is not a PropertyMixin subclass
\* fails with InvalidModule (TypeError) and changes nothing: a key that was
\* not registered before the call is still not registered and has neither a
\* patch list nor an original slot (a key registered earlier keeps its
\* entry), and the module's __new__ has not been wrapped.
C3_InvalidModuleChangesNothing ==
  [][(last'.op = "register" /\ ~IsPropertyMixin(last'.module))
       => /\ last'.err = "InvalidModule"
          /\ UNCHANGED reg_vars
          /\ new_wrappers'[last'.module] = <<>>
          /\ last'.key \notin DOMAIN registry
               => /\ last'.key \notin DOMAIN registry'
                  /\ \A i \in 1..Len(patch_registry') :
                        patch_registry'[i].key # last'.key
                  /\ last'.key \notin DOMAIN originals']_vars

\* register() of a fresh key with a class that is not a PropertyMixin
\* subclass has just failed, in a registry that holds another key.
C3_Witness ==
  /\ last.op = "register"
  /\ last.err = "InvalidModule"
  /\ last.key \notin DOMAIN registry
  /\ registry # <<>>

\* C4: get_original_method() for a registered key whose original was never
\* captured fails with NoOriginal, a successful call returns the stored
\* original, and the lookups (get_mixin_for_key, all_patch_specs,
\* get_original_method) never change the registry, whether they succeed or
\* fail.
C4_LookupsArePure ==
  [][last'.op \in LookupOps
       => /\ UNCHANGED <<reg_vars, patch_calls>>
          /\ (last'.op = "get_original_method"
                /\ last'.key \in DOMAIN registry)
               => IF originals[last'.key] = NoMethod
                  THEN last'.err = "NoOriginal"
                  ELSE last'.err = "ok" /\ last'.ret = originals[last'.key]]_vars

\* get_original_method() has just failed with NoOriginal for a registered key
\* that has a patch spec.
C4_Witness ==
  /\ last.op = "get_original_method"
  /\ last.err = "NoOriginal"
  /\ last.key \in DOMAIN registry
  /\ PatchList(last.key) # <<>>

\* The number of successful register_patch calls for an entry point class.
PatchCallsFor(cls) ==
  Cardinality({i \in 1..Len(patch_calls) : patch_calls[i].spec.cls = cls})

\* The first entry point, in the iteration order of _METHOD_PATCHES, that
\* `key` has a patch spec for (key has at least one spec).
FirstEntryPointOf(key) ==
  LET mp == build_method_patches
      i == FirstIndex(mp, LAMBDA e :
                            \E j \in 1..Len(e.specs) : e.specs[j].prop_key = key)
  IN mp[i].cls

\* C5, as stated: when register_patch(key, C, "doit", ...) succeeds and is
\* the first patch ever registered for (C, "doit"), C's native method is
\* captured by that call, so get_original_method(key) returns it right
\* after the call.
C5_CapturedByRegisterPatch ==
  (last.op = "register_patch" /\ last.err = "ok" /\ PatchCallsFor(last.cls) = 1)
    => originals[last.key] = Native(last.cls)

\* C5, amended: register_patch() captures nothing: the stored originals and
\* the installed methods are the same before and after the call.  The capture
\* is made by apply_all_patches: for every key with a patch spec and no
\* stored original it stores the method installed at that moment on the
\* first entry point the key has a spec for; an original already stored is
\* never replaced, and a key without patch specs gets none.
C5_CapturedByInstall ==
  [][/\ last'.op = "register_patch"
          => originals' = originals /\ installed' = installed
     /\ last'.op = "apply_all_patches"
          => \A key \in DOMAIN registry :
               originals'[key] =
                 IF originals[key] # NoMethod \/ PatchList(key) = <<>>
                 THEN originals[key]
                 ELSE CurrentMethod(FirstEntryPointOf(key))]_vars

\* apply_all_patches has just run for the second time and a key holds the
\* native method of the entry point of its first patch spec.
C5_Witness ==
  /\ last.op = "apply_all_patches"
  /\ \E key \in DOMAIN registry :
       /\ PatchList(key) # <<>>
       /\ originals[key] = Native(PatchList(key)[1].cls)
  /\ \E c \in SymClasses : Len(installed[c]) = 2

\* ----------------------------------------------------------- dispatcher claims

PatchedClasses == {c \in SymClasses : installed[c] # <<>>}

\* The specs captured by the outermost dispatcher installed on cls.
TopSpecs(cls) == installed[cls][Len(installed[cls])]

\* Does the hook of a spec exist on the operator class of `head`?
HookResolves(head, hook_name) == ResolveHook(head, hook_name) # None

\* C6: the dispatcher tries the patch specs of (C, "doit") in the order of
\* the register_patch calls, whatever the order in which the keys were
\* registered: for a dispatcher that holds all the specs registered so far
\* and a head with several keys, the hook invoked belongs to the key of the
\* earliest register_patch call for C among the head's keys whose hook
\* exists.
C6_PatchCallOrder ==
  \A cls \in PatchedClasses, head \in Heads :
    LET r == DoitOutcome(cls, head)
        first == FirstIndex(patch_calls, LAMBDA c :
                              /\ c.spec.cls = cls
                              /\ c.key \in PropKeys(head)
                              /\ HookResolves(head, c.spec.hook))
    IN (r.kind = "hook" /\ TopSpecs(cls) = EntriesOf(all_patch_specs, cls))
         => (first # 0 /\ r.tag = patch_calls[first].key)

\* C7: apply_all_patches is idempotent: however often it has run, a call of
\* the patched method goes through exactly one dispatcher layer.
C7_OneDispatcherLayer ==
  \A cls \in PatchedClasses, head \in Heads :
    DoitOutcome(cls, head).layers = 1

\* C8: the original stored for a key that has a patch spec is a native
\* method, never a dispatcher, also when apply_all_patches is repeated
\* after a key was added at runtime.
C8_OriginalIsNative ==
  \A key \in DOMAIN registry :
    (PatchList(key) # <<>> /\ originals[key] # NoMethod)
      => originals[key].level = 0

\* C9: when the dispatcher invokes a hook for the matched key T, the hook
\* that runs is the one defined by the mixin registered for T, also when the
\* head's operator class is composed of several mixins that define a hook of
\* the same name.
C9_HookOfMatchedKey ==
  \A cls \in PatchedClasses, head \in Heads :
    LET r == DoitOutcome(cls, head)
    IN r.kind = "hook" => r.owner = registry[r.tag].mixin

FirstUsable(specs, cls, head) ==
  FirstIndex(specs, LAMBDA e :
               /\ e.prop_key \in PropKeys(head)
               /\ (~HasAttr(cls, e.head_attr) \/ HookResolves(head, e.hook)))

HasTagMachinery(head) == head.custom \/ head.inst

\* C11: when no spec of the entry point has its key on the head, the patched
\* method returns the node unevaluated for every head with tag machinery
\* (class-level or instance-level, even with no key), and reaches the
\* native method only for a head without any.
C11_UnevaluatedForAnyTagMachinery ==
  \A cls \in PatchedClasses, head \in Heads \cup StampedHeads :
    LET r == DoitOutcome(cls, head)
    IN (\A i \in 1..Len(TopSpecs(cls)) :
          TopSpecs(cls)[i].prop_key \notin PropKeys(head))
         => r.kind = IF HasTagMachinery(head) THEN "unevaluated" ELSE "native"

\* ---------------------------------------------------------- construction claim

\* C12: a value constructed from a type composed of several registered rule
\* modules went through the base type's real construction, and its property
\* set is exactly the set of the keys of all the modules of the composition.
C12_PropertySetIsUnion ==
  (/\ last.op = "construct"
   /\ Len(last.bases) >= 2
   /\ \A i \in 1..Len(last.bases) : new_wrappers[last.bases[i]] # <<>>)
    => /\ last.obj.built
       /\ Range(last.obj.keys) =
            UNION {Range(new_wrappers[last.bases[i]]) : i \in 1..Len(last.bases)}

\* ------------------------------------------------------------- rule claims

\* C13: a register_patch call that passes an argument extractor as its sixth
\* argument, for a registered key, is accepted: the patch spec carries the
\* extractor, which decides the arguments the hook is given.
C13_ExtractorAccepted ==
  (/\ last.op = "register_patch"
   /\ "arg_extractor" \in DOMAIN last
   /\ last.key \in DOMAIN registry)
    => last.err = "ok"

\* The value last.result was computed for: an entry point node of class cls
\* over an application of an operator whose tags are exactly `func`.
Evaluated(cls, func) ==
  /\ last.op = "evaluate"
  /\ last.node.k = cls
  /\ last.node.a[1].k = "app"
  /\ last.node.a[1].f = func

\* C14: for an operator tagged with a derivative rule and applied with an
\* arity the rule does not accept (linear_derivative: not one argument,
\* product_rule: not two, pull_derivative_chain: none), Derivative(...).doit()
\* returns the Derivative node over the same head, arguments and variable,
\* and no exception.
C14_WrongArityUnevaluated ==
  LET n == Len(last.node.a[1].a)
  IN (\/ Evaluated("Derivative", <<"linear_derivative">>) /\ n # 1
      \/ Evaluated("Derivative", <<"product_rule">>) /\ n # 2
      \/ Evaluated("Derivative", <<"pull_derivative_chain">>) /\ n = 0)
       => last.result = last.node

\* The linear_derivative hook was invoked on a two-argument application and
\* gave the node back.
C14_Witness ==
  /\ Evaluated("Derivative", <<"linear_derivative">>)
  /\ Len(last.node.a[1].a) = 2
  /\ last.hook_args = last.node.v
  /\ last.result = last.node

\* C15: for an operator L whose tag is linear_derivative, applied to one
\* argument u, Derivative(L(u), x).doit() is L applied to the derivative of
\* u in x, and its head is L.
C15_LinearDerivative ==
  (Evaluated("Derivative", <<"linear_derivative">>)
   /\ Len(last.node.a[1].a) = 1)
    => /\ last.result.k = "app"
       /\ last.result.f = last.node.a[1].f
       /\ last.result.a =
            <<NativeDoit(Derivative(last.node.a[1].a[1], last.node.v[1]))>>

\* L(x**2) was differentiated in x through the hook, giving L(2*x).
C15_Witness ==
  /\ Evaluated("Derivative", <<"linear_derivative">>)
  /\ last.node.a[1].a = <<Leaf("x**2")>>
  /\ last.node.v = <<"x">>
  /\ last.hook_args = <<"x">>
  /\ last.result = Apply(<<"linear_derivative">>, <<Leaf("2*x")>>)

\* C16: for an operator G tagged pull_derivative_chain with n >= 1
\* arguments, Derivative(G(u1..un), x).doit() is G(0,...,0) when no argument
\* depends on x, and otherwise the sum of the n terms G(u1..ui'..un).
C16_ChainRule ==
  LET G == last.node.a[1]
      x == last.node.v[1]
      n == Len(G.a)
  IN (Evaluated("Derivative", <<"pull_derivative_chain">>) /\ n >= 1)
       => IF \A i \in 1..n : diff(G.a[i], x) = Leaf("0")
          THEN last.result = Apply(G.f, [i \in 1..n |-> Leaf("0")])
          ELSE last.result =
                 Add([i \in 1..n |->
                        Apply(G.f, [G.a EXCEPT ![i] = diff(G.a[i], x)])])

C18_DistributeNeedsTwo ==
  (Evaluated("Integral", <<"distribute_integral">>)
   /\ Len(last.node.a[1].a) < 2)
    => last.result = last.node

\* C19: for an operator tagged only pull_integral and applied to two
\* arguments, Integral(V(a, b), a).doit() returns the Integral node.
C19_PullNeedsOne ==
  (Evaluated("Integral", <<"pull_integral">>)
   /\ Len(last.node.a[1].a) = 2)
    => last.result = last.node

\* C20: with Limit patched, for an operator F tagged pull_limit,
\* Limit(F(u1..un), var, point, dir).doit() is F applied to the evaluated
\* limits of the arguments for the same var, point and dir; for an operator
\* with no limit tag the Limit node is returned as it is.
C20_PullLimit ==
  LET F == last.node.a[1]
      v == last.node.v
  IN /\ Evaluated("Limit", <<"pull_limit">>)
          => last.result =
               Apply(F.f, [i \in 1..Len(F.a) |->
                             NativeDoit(Limit(F.a[i], v[1], v[2], v[3]))])
     /\ (Evaluated("Limit", <<>>) \/ Evaluated("Limit", <<"pull_integral">>))
          => last.result = last.node

\* F(1/x, a) with F tagged pull_limit was taken to the limit x -> 0 from the
\* left through the hook, giving F(-oo, a).
C20_Witness ==
  /\ Evaluated("Limit", <<"pull_limit">>)
  /\ last.node.a[1].a = <<Leaf("1/x"), Leaf("a")>>
  /\ last.node.v = <<"x", "0", "-">>
  /\ last.hook_args = <<"x", "0", "-">>
  /\ last.result = Apply(<<"pull_limit">>, <<Leaf("-oo"), Leaf("a")>>)

\* C21: with Limit patched, for an operator tagged distribute_limit and
\* applied to fewer than two arguments, Limit(...).doit() returns the Limit
\* node over the same head, arguments, variable, point and direction.
C21_DistributeLimitNeedsTwo ==
  (Evaluated("Limit", <<"distribute_limit">>) /\ Len(last.node.a[1].a) < 2)
    => last.result = last.node

\* ------------------------------------------------------------- operator claims

\* The expression written as a term over the operator class cls was
\* constructed.
Built(cls) == last.op = "build" /\ last.term.f = cls

\* The leaves of a term, from left to right.
RECURSIVE LeavesOf(_)
LeavesOf(t) ==
  IF t.k = "leaf" THEN <<t>> ELSE LeavesOf(t.a[1]) \o LeavesOf(t.a[2])

\* The right-nested node cls(l1, cls(l2, ... cls(l(n-1), ln))).
RECURSIVE Comb(_, _)
Comb(cls, leaves) ==
  IF Len(leaves) = 1 THEN leaves[1]
  ELSE Apply(cls, <<Head(leaves), Comb(cls, Tail(leaves))>>)

\* C22: for an operator F tagged associative, constructing F(F(x, y), z)
\* yields the node that constructing F(x, F(y, z)) yields, and
\* F(F(F(a, b), c), d) yields F(a, F(b, F(c, d))).
C22_Associative ==
  LET F == last.term.f
      t == last.term
  IN /\ (Built(<<"associative">>) /\ t.a[1].k = "app")
          => last.obj =
               Build(Apply(F, <<t.a[1].a[1], Apply(F, <<t.a[1].a[2], t.a[2]>>)>>))
     /\ \A a, b, c, d \in {Leaf(name) : name \in LeafNames} :
          (Built(<<"associative">>)
           /\ t = Apply(F, <<Apply(F, <<Apply(F, <<a, b>>), c>>), d>>))
            => last.obj = Apply(F, <<a, Apply(F, <<b, Apply(F, <<c, d>>)>>)>>)

\* F(F(a, b), c) was constructed and is F(a, F(b, c)).
C22_Witness ==
  /\ Built(<<"associative">>)
  /\ last.term = Apply(<<"associative">>,
                       <<Apply(<<"associative">>, <<Leaf("a"), Leaf("b")>>),
                         Leaf("c")>>)
  /\ last.obj = Apply(<<"associative">>,
                      <<Leaf("a"),
                        Apply(<<"associative">>, <<Leaf("b"), Leaf("c")>>)>>)

\* C23: for an operator F tagged commutes, F(args) and F(p(args)) are the
\* same node for every permutation p of the arguments, and the node's
\* arguments are in the canonical order.
C23_Commutes ==
  Built(<<"commutes">>)
    => LET args == last.term.a
           n == Len(args)
       IN /\ \A p \in Permutations(1..n) :
               new(last.term.f, [i \in 1..n |-> args[p[i]]]) = last.obj
          /\ \A i \in 1..n, j \in 1..n :
               i < j => default_sort_key(last.obj.a[i])
                          <= default_sort_key(last.obj.a[j])

\* F(b, a) was constructed and its arguments are (a, b).
C23_Witness ==
  /\ Built(<<"commutes">>)
  /\ last.term.a = <<Leaf("b"), Leaf("a")>>
  /\ last.obj.a = <<Leaf("a"), Leaf("b")>>

\* C29: for every term written with an associative operator F over
\* symbols, construction ends and gives the right-nested comb over the
\* term's leaves in their left-to-right order.
C29_RightComb ==
  Built(<<"associative">>)
    => last.obj = Comb(last.term.f, LeavesOf(last.term))

\* F(F(F(a, b), c), a), four leaves nested to the left, was constructed and
\* is the comb F(a, F(b, F(c, a))).
C29_Witness ==
  /\ Built(<<"associative">>)
  /\ last.term.a[1].k = "app"
  /\ last.term.a[1].a[1].k = "app"
  /\ LeavesOf(last.term) = <<Leaf("a"), Leaf("b"), Leaf("c"), Leaf("a")>>
  /\ last.obj = Comb(<<"associative">>,
                     <<Leaf("a"), Leaf("b"), Leaf("c"), Leaf("a")>>)

\* ------------------------------------------------------------ symbol values

\* Symbol values.  A symbol is a leaf whose v is the tag list its class was
\* composed from: <<>> is the engine's plain Symbol, any other list a
\* subclass of Symbol deriving from the tags' modules in that order.
Sym(name, cls) == [k |-> "leaf", f |-> <<name>>, a |-> <<>>, v |-> cls]

\* Mul(*args) of the engine, unevaluated: the factors in the order given.
Mul(factors) == [k |-> "Mul", f |-> <<>>, a |-> factors, v |-> <<>>]

\* Add(a, b) of the engine for two symbols: a commutative sum, whose
\* arguments are kept in the engine's canonical order.
NativeAdd(a, b) == Add(sort_args(<<a, b>>))

\* NCAdd(a, b): the undefined function "NCAdd" applied to (a, b), in order.
NCAdd(a, b) == [k |-> "NCAdd", f |-> <<>>, a |-> <<a, b>>, v |-> <<>>]

\* isinstance(value, Add)
IsAdd(value) == value.k = "Add"

\* getattr(value, "_property_keys", []): what the module constructors and
\* the registered wrappers of the value's class left on the instance.
property_keys(value) ==
  IF value.k # "leaf" THEN <<>>
  ELSE construct_from([i \in 1..Len(value.v) |-> ValueMixinFor(value.v[i])],
                      1).keys

\* Whether the class of `value` defines `method` itself (in a rule module)
\* rather than inheriting the engine's.
Overrides(value, method) ==
  LET cls == {value.v[i] : i \in 1..Len(value.v)}
  IN /\ value.k = "leaf"
     /\ CASE method \in {"__add__", "__radd__"} -> "non_commutes_add" \in cls
          [] method = "__mul__" -> "distribute_mul_add_left" \in cls
          [] method = "__rmul__" -> cls \cap DistributiveTags # {}
          [] OTHER -> FALSE

\* The original Add.__mul__ (Expr.__mul__): both operands have the same
\* operation priority, so the product is built with the sum as one factor.
original_add_mul(self, other) == Mul(<<self, other>>)

\* NonCommAddMixin.__add__ and NonCommAddMixin.__radd__
NonCommAddMixin___add__(self, other) == NCAdd(self, other)
NonCommAddMixin___radd__(self, other) == NCAdd(other, self)

\* DistributeMulAddLeftMixin.__mul__ : x * (y + z) -> x*y + x*z
DistributeMulAddLeftMixin___mul__(self, other) ==
  IF IsAdd(other)
  THEN Add([i \in 1..Len(other.a) |-> Mul(<<self, other.a[i]>>)])
  ELSE Mul(<<self, other>>)

\* DistributeMulAddLeftMixin.__rmul__ and DistributeMulAddRightMixin.__rmul__
\* have the same body: (y + z) * x -> y*x + z*x
Distribute___rmul__(self, other) ==
  IF IsAdd(other)
  THEN Add([i \in 1..Len(other.a) |-> Mul(<<other.a[i], self>>)])
  ELSE Mul(<<other, self>>)

\* A patched Add.__mul__ that distributes over every tagged right operand.
patched_add_mul_any_tag(self, other) ==
  IF Len(property_keys(other)) > 0
  THEN Distribute___rmul__(other, self)
  ELSE original_add_mul(self, other)

\* patched_add_mul, installed as Add.__mul__ by
\* DistributeMulAddRightMixin.__init_subclass__
patched_add_mul(self, other) ==
  IF \E i \in 1..Len(property_keys(other)) :
        property_keys(other)[i] = "distribute_mul_add_right"
  THEN Distribute___rmul__(other, self)
  ELSE original_add_mul(self, other)

\* Add._patched_for_distribute_right: set together with the stored original.
AddPatched == originals["distribute_mul_add_right"] # NoMethod

\* Whether Python tries the right operand's reflected method first: the
\* right operand's type is a proper subclass of the left operand's type and
\* provides its own reflected method.  Composed classes derive from Symbol
\* only, so this is the case of a plain Symbol on the left.
ReflectedFirst(lhs, rhs, reflected) ==
  /\ lhs.k = "leaf" /\ lhs.v = <<>>
  /\ rhs.k = "leaf" /\ rhs.v # <<>>
  /\ Overrides(rhs, reflected)

\* lhs + rhs
py_add(lhs, rhs) ==
  IF ReflectedFirst(lhs, rhs, "__radd__") THEN NonCommAddMixin___radd__(rhs, lhs)
  ELSE IF Overrides(lhs, "__add__") THEN NonCommAddMixin___add__(lhs, rhs)
  ELSE NativeAdd(lhs, rhs)

\* lhs * rhs
py_mul(lhs, rhs) ==
  IF ReflectedFirst(lhs, rhs, "__rmul__") THEN Distribute___rmul__(rhs, lhs)
  ELSE IF IsAdd(lhs)
  THEN IF AddPatched THEN patched_add_mul(lhs, rhs)
       ELSE original_add_mul(lhs, rhs)
  ELSE IF Overrides(lhs, "__mul__") THEN DistributeMulAddLeftMixin___mul__(lhs, rhs)
  ELSE Mul(<<lhs, rhs>>)

\* The state after non_comm_add.py and distributive.py have been imported.
ValueTags == {"non_commutes_add"} \cup DistributiveTags

InitSymbols ==
  /\ registry = [key \in ValueTags |->
                   [desc |-> "d1", mixin |-> ValueMixinFor(key)]]
  /\ patch_registry =
       <<[key |-> "non_commutes_add", specs |-> <<>>],
         [key |-> "distribute_mul_add_left", specs |-> <<>>],
         [key |-> "distribute_mul_add_right", specs |-> <<>>]>>
  /\ originals = [key \in ValueTags |-> NoMethod]
  /\ new_wrappers =
       [m \in AllModules |->
          IF \E key \in ValueTags : ValueMixinFor(key) = m
          THEN <<CHOOSE key \in ValueTags : ValueMixinFor(key) = m>>
          ELSE <<>>]
  /\ installed = [c \in SymClasses |-> <<>>]
  /\ orig_attr = [tl \in TagLists |-> NoMethod]
  /\ patch_calls = <<>>
  /\ last = [op |-> "init"]

\* DistributeMulAddRightMixin.__init_subclass__: the first class derived from
\* the module patches Add.__mul__ and stores the original.
init_subclass ==
  /\ originals' = IF AddPatched THEN originals
                  ELSE store_original_method(originals,
                                             "distribute_mul_add_right",
                                             Native("Add"))
  /\ last' = [op |-> "init_subclass"]
  /\ UNCHANGED <<registry, patch_registry, new_wrappers, installed,
                 orig_attr, patch_calls>>

\* The classes symbols are made of, the symbols, and the sums of two plain
\* symbols.  A class deriving from DistributeMulAddRightMixin exists only
\* after __init_subclass__ has run.
ValueClasses ==
  {<<>>, <<"non_commutes_add">>, <<"distribute_mul_add_left">>,
   <<"distribute_mul_add_right">>,
   <<"distribute_mul_add_left", "distribute_mul_add_right">>,
   <<"non_commutes_add", "distribute_mul_add_right">>}
ClassExists(cls) ==
  (\E i \in 1..Len(cls) : cls[i] = "distribute_mul_add_right") => AddPatched
SymbolValues ==
  {Sym(name, cls) : name \in {"a", "b"},
                    cls \in {c \in ValueClasses : ClassExists(c)}}

\* lhs + rhs and lhs * rhs, evaluated.
add(lhs, rhs) ==
  /\ last' = [op |-> "add", lhs |-> lhs, rhs |-> rhs,
              result |-> py_add(lhs, rhs)]
  /\ UNCHANGED <<reg_vars, patch_calls>>

mul(lhs, rhs) ==
  /\ last' = [op |-> "mul", lhs |-> lhs, rhs |-> rhs,
              result |-> py_mul(lhs, rhs),
              native |-> original_add_mul(lhs, rhs)]
  /\ UNCHANGED <<reg_vars, patch_calls>>

NextSymbols ==
  \/ init_subclass
  \/ \E lhs \in SymbolValues, rhs \in SymbolValues : add(lhs, rhs)
  \/ \E lhs, rhs \in SymbolValues \cup {NativeAdd(Sym("a", <<>>), Sym("b", <<>>))} :
        mul(lhs, rhs)

SpecSymbols == InitSymbols /\ [][NextSymbols]_vars

\* C24: a symbol tagged non_commutes_add on the left of a plain symbol adds
\* to NCAdd(Z, W); with the plain symbol on the left, W + Z is the engine's
\* ordinary commutative Add and not an NCAdd.
C24_PlainLeftIsAdd ==
  (/\ last.op = "add"
   /\ last.lhs.v = <<>>
   /\ last.rhs.v = <<"non_commutes_add">>)
    => last.result = NativeAdd(last.lhs, last.rhs)

\* C25: once Add.__mul__ is patched, (y + z) * x is y*x + z*x exactly when
\* x carries distribute_mul_add_right in its property keys; for every other
\* right operand the product is what the original Add.__mul__ returns, so a
\* symbol tagged only distribute_mul_add_left is not distributed.
C25_RightDistribution ==
  (last.op = "mul" /\ AddPatched /\ IsAdd(last.lhs)) =>
    LET keys == property_keys(last.rhs)
        tagged == \E i \in 1..Len(keys) : keys[i] = "distribute_mul_add_right"
        expanded == Add(<<Mul(<<last.lhs.a[1], last.rhs>>),
                          Mul(<<last.lhs.a[2], last.rhs>>)>>)
    IN /\ tagged => last.result = expanded
       /\ ~tagged => last.result = last.native /\ last.result # expanded
       /\ last.rhs.v = <<"distribute_mul_add_left">> =>
            last.result = Mul(<<last.lhs, last.rhs>>)

C25_Witness ==
  /\ last.op = "mul"
  /\ AddPatched
  /\ last.lhs = NativeAdd(Sym("a", <<>>), Sym("b", <<>>))
  /\ last.rhs = Sym("a", <<"distribute_mul_add_right">>)
  /\ last.result = Add(<<Mul(<<Sym("a", <<>>), last.rhs>>),
                         Mul(<<Sym("b", <<>>), last.rhs>>)>>)

\* C26: whenever the dispatcher of (C, "doit") invokes a hook for the
\* matching key T on a head, what it has attached to the head's operator as
\* __orig_doit is the method C had before any dispatcher was installed on
\* it, so that calling it does not enter a dispatcher.
C26_StashIsPrePatch ==
  \A cls \in PatchedClasses, head \in Heads :
    LET r == DoitOutcome(cls, head)
    IN r.kind = "hook" => r.stash = Native(cls)

\* ------------------------------------------------------------ running hooks

\* Entry point nodes over one application of an operator class that has an
\* integral rule, a derivative rule, or both.
NestedNodes ==
  LET funcs == {MixedTags, <<"pull_integral">>, <<"pull_derivative_chain">>}
  IN {Integral(Apply(func, <<Leaf("a")>>), "x") : func \in funcs}
       \cup {Derivative(Apply(func, <<Leaf("a")>>), "x") : func \in funcs}

\* setattr(head2.func, "__orig_doit", orig) of the dispatcher that handles
\* `node`: done when it is about to invoke a hook.
Attach(node) ==
  LET r == DoitOutcome(node.k, HeadOf(node.a[1]))
  IN IF r.kind = "hook" /\ r.stash # NoMethod
     THEN [orig_attr EXCEPT ![node.a[1].f] = r.stash]
     ELSE orig_attr

\* node.doit() up to the start of the hook: the dispatcher has attached the
\* original and calls hook(head2, *hook_args); the hook is now running.
enter_hook(node) ==
  /\ last.op # "hook_running"
  /\ HeadOf(node.a[1]) \in Heads
  /\ DoitOutcome(node.k, HeadOf(node.a[1])).kind = "hook"
  /\ orig_attr' = Attach(node)
  /\ last' = [op |-> "hook_running", node |-> node,
              stash |-> DoitOutcome(node.k, HeadOf(node.a[1])).stash,
              nested |-> "None"]
  /\ UNCHANGED <<registry, patch_registry, originals, new_wrappers,
                 installed, patch_calls>>

\* An evaluation nested in the running hook: the hook, or the engine method
\* it calls, invokes inner.doit() on a node of a patched entry point.
nested_doit(inner) ==
  /\ last.op = "hook_running"
  /\ installed[inner.k] # <<>>
  /\ HeadOf(inner.a[1]) \in Heads
  /\ orig_attr' = Attach(inner)
  /\ last' = [last EXCEPT !.nested = inner.k]
  /\ UNCHANGED <<registry, patch_registry, originals, new_wrappers,
                 installed, patch_calls>>

\* The hook returns and with it the outer doit().
hook_returns ==
  /\ last.op = "hook_running"
  /\ last' = [op |-> "evaluate", node |-> last.node,
              result |-> EvalNode(last.node), hook_args |-> HookArgs(last.node)]
  /\ UNCHANGED <<reg_vars, patch_calls>>

NextNested ==
  \/ last.op # "hook_running" /\ apply_all_patches
  \/ \E node \in NestedNodes : enter_hook(node)
  \/ \E inner \in NestedNodes : nested_doit(inner)
  \/ hook_returns

SpecNested == InitRules /\ [][NextNested]_vars

\* C27: while a hook invoked by the dispatcher of one entry point is running
\* on an operator, what is recoverable from the operator as __orig_doit
\* stays what that dispatcher attached, also after a nested evaluation of
\* another entry point whose head is a node of the same operator.
C27_StashStays ==
  last.op = "hook_running" =>
    orig_attr[last.node.a[1].f] = last.stash

\* C28: the property keys of every constructed value hold each key at most
\* once, also for a rule module whose own __new__ writes the property keys.
C28_NoDuplicateTags ==
  last.op = "construct" =>
    \A i, j \in 1..Len(last.obj.keys) :
      i # j => last.obj.keys[i] # last.obj.keys[j]

\* ------------------------------------------------------------ LaTeX front end

\* A prompt is the sequence of the text pieces joined into it.
\* _build_prompt: the fixed rules, the context line when a context is given
\* (empty parts are filtered out), and the LaTeX input line.
build_prompt(latex, context) ==
  <<"RULES">>
    \o (IF context # "" THEN <<"Context:", context>> ELSE <<>>)
    \o <<"LATEX INPUT:", latex>>

\* _repair_prompt(prev_prompt, err): the rejection notice, str(err) and the
\* instruction to answer again; prev_prompt is not used.
repair_prompt(prev_prompt, err) ==
  <<"Your last JSON was rejected.", "Reason:", err, "Reread the rules">>

\* Whether the text `piece` occurs in the prompt.
Contains(prompt, piece) == \E i \in 1..Len(prompt) : prompt[i] = piece

\* str(e) of what can end an attempt: a failed or timed out call
\* (_run_llm_async inside asyncio.wait_for) or an answer rejected by
\* _parse_and_validate.
CallErrors == {"", "OpenAI validation error"}
ParseErrors == {"Invalid JSON", "Missing keys in JSON", "Parse error"}

\* to_sympy_async has been called: the caller's arguments are chosen.
InitAsync ==
  /\ registry = <<>>
  /\ patch_registry = <<>>
  /\ originals = <<>>
  /\ new_wrappers = [m \in AllModules |-> <<>>]
  /\ installed = [c \in SymClasses |-> <<>>]
  /\ orig_attr = [tl \in TagLists |-> NoMethod]
  /\ patch_calls = <<>>
  /\ last \in {[op |-> "to_sympy_async", latex |-> l, context |-> c,
                max_retries |-> m] :
                 l \in {"x^2", "\\frac{a}{b}"}, c \in {"", "k folds"},
                 m \in 0..MaxRetries}

\* prompt = self._build_prompt(latex, context), before the loop.
start_loop ==
  /\ last.op = "to_sympy_async"
  /\ last' = [op |-> "loop", latex |-> last.latex, context |-> last.context,
              max_retries |-> last.max_retries, attempt |-> 0,
              prompt |-> build_prompt(last.latex, last.context),
              sent |-> <<>>, status |-> "running"]
  /\ UNCHANGED <<reg_vars, patch_calls>>

\* One iteration of the loop: the current prompt is sent; the call fails, or
\* the answer is rejected, or it is accepted.  On the last attempt the error
\* is raised; otherwise the next prompt is the repair prompt.
attempt_step(outcome, err) ==
  /\ last.op = "loop"
  /\ last.status = "running"
  /\ last' =
       IF outcome = "accepted"
       THEN [last EXCEPT !.sent = last.prompt, !.status = "returned"]
       ELSE IF last.attempt = last.max_retries
       THEN [last EXCEPT !.sent = last.prompt, !.status = "raised"]
       ELSE [last EXCEPT !.sent = last.prompt,
                         !.attempt = @ + 1,
                         !.prompt = repair_prompt(last.prompt, err)]
  /\ UNCHANGED <<reg_vars, patch_calls>>

NextAsync ==
  \/ start_loop
  \/ attempt_step("accepted", "")
  \/ \E err \in CallErrors : attempt_step("call_failed", err)
  \/ \E err \in ParseErrors : attempt_step("rejected", err)

SpecAsync == InitAsync /\ [][NextAsync]_vars

\* C30: every prompt sent to the model by to_sympy_async, on the first
\* attempt and on each retry, contains the caller's LaTeX input, and the
\* context when one was given.
C30_PromptKeepsInput ==
  (last.op = "loop" /\ last.sent # <<>>) =>
    /\ Contains(last.sent, last.latex)
    /\ last.context # "" => Contains(last.sent, last.context)

====
